---- MODULE Spec2Model ----
(***************************************************************************)
(* Cell-identifier reconciliation (src/prog1): the identifier builders of  *)
(* test.py, test2.py and parse_excel_access.py, the spreadsheet column     *)
(* resolver with its multi-sheet fallback, and the run of main().          *)
(*                                                                         *)
(* Strings are sequences of one-character strings.  A raw field value is   *)
(* a record: [kind |-> "none"], [kind |-> "int", n], [kind |-> "float", n, *)
(* frac] (the value n + frac/10) or [kind |-> "text", s].                  *)
(***************************************************************************)
EXTENDS Integers, Sequences, FiniteSets, TLC

VARIABLES
    row, mnc_mode, lac_width, ci_width, res1, res2, res3,   \* identifier builders
    headers, target, resolved,                              \* column resolver
    book, column, sheet, xvariant, xpc, xi, tried, attempts, xout,  \* one spreadsheet read
    variant, pc, conn, table, gbook, sbook, var1, var2, var3,
    NGCI, NSAI, printed, csv                                \* one run of main()

bvars == <<row, mnc_mode, lac_width, ci_width, res1, res2, res3>>
rvars == <<headers, target, resolved>>
xvars == <<book, column, sheet, xvariant, xpc, xi, tried, attempts, xout>>
mvars == <<variant, pc, conn, table, gbook, sbook, var1, var2, var3,
           NGCI, NSAI, printed, csv>>
vars == <<bvars, rvars, xvars, mvars>>

----------------------------------------------------------------------------
(* Bounds *)

MaxWidth == 4

----------------------------------------------------------------------------
(* Characters and strings *)

IsSpace(c) == c = " "

DecDigits == <<"0", "1", "2", "3", "4", "5", "6", "7", "8", "9">>
HexDigits == DecDigits \o <<"A", "B", "C", "D", "E", "F">>

IsDigit(c) == \E i \in 1..10 : DecDigits[i] = c
DigitVal(c) == (CHOOSE i \in 1..10 : DecDigits[i] = c) - 1

\* str.lower() / str.upper() on one character
UpperLetters == <<"A", "B", "C", "D", "E", "F", "G", "H", "I", "J", "K", "L", "M",
                  "N", "O", "P", "Q", "R", "S", "T", "U", "V", "W", "X", "Y", "Z">>
LowerLetters == <<"a", "b", "c", "d", "e", "f", "g", "h", "i", "j", "k", "l", "m",
                  "n", "o", "p", "q", "r", "s", "t", "u", "v", "w", "x", "y", "z">>
LowerC(c) ==
    IF \E i \in 1..Len(UpperLetters) : UpperLetters[i] = c
    THEN LowerLetters[CHOOSE i \in 1..Len(UpperLetters) : UpperLetters[i] = c]
    ELSE c
UpperC(c) ==
    IF \E i \in 1..Len(LowerLetters) : LowerLetters[i] = c
    THEN UpperLetters[CHOOSE i \in 1..Len(LowerLetters) : LowerLetters[i] = c]
    ELSE c
Lower(s) == [i \in 1..Len(s) |-> LowerC(s[i])]
Upper(s) == [i \in 1..Len(s) |-> UpperC(s[i])]

\* re.sub(r"\s+", "", s)
RemoveSpace(s) == SelectSeq(s, LAMBDA c : ~IsSpace(c))

\* str.strip()
RECURSIVE LStrip(_)
LStrip(s) == IF s # <<>> /\ IsSpace(Head(s)) THEN LStrip(Tail(s)) ELSE s
RECURSIVE RStrip(_)
RStrip(s) ==
    IF s # <<>> /\ IsSpace(s[Len(s)]) THEN RStrip(SubSeq(s, 1, Len(s) - 1)) ELSE s
Strip(s) == RStrip(LStrip(s))

\* str.zfill(w): left-pad with "0" up to w characters, never truncate
RECURSIVE ZFill(_, _)
ZFill(s, w) == IF Len(s) < w THEN ZFill(<<"0">> \o s, w) ELSE s

\* str(n) and format(n, "X") of a non-negative integer
RECURSIVE DecStr(_)
DecStr(n) == IF n < 10 THEN <<DecDigits[n + 1]>>
             ELSE DecStr(n \div 10) \o <<DecDigits[(n % 10) + 1]>>
RECURSIVE HexStr(_)
HexStr(n) == IF n < 16 THEN <<HexDigits[n + 1]>>
             ELSE HexStr(n \div 16) \o <<HexDigits[(n % 16) + 1]>>

\* str.replace(",", ".")
CommaToDot(s) == [i \in 1..Len(s) |-> IF s[i] = "," THEN "." ELSE s[i]]

AllDigits(s) == \A i \in 1..Len(s) : IsDigit(s[i])
RECURSIVE DigitsVal(_)
DigitsVal(s) == IF s = <<>> THEN 0
                ELSE 10 * DigitsVal(SubSeq(s, 1, Len(s) - 1)) + DigitVal(s[Len(s)])

Fail == -1

\* int(s) of a string: surrounding whitespace ignored, then decimal digits
\* only; Fail stands for ValueError
IntOfStr(s) ==
    LET t == Strip(s) IN
    IF t # <<>> /\ AllDigits(t) THEN DigitsVal(t) ELSE Fail

\* int(float(s)) of a string: digits, at most one ".", at least one digit;
\* the fraction is dropped; Fail stands for ValueError
IntOfFloatStr(s) ==
    LET t == Strip(s)
        dots == {i \in 1..Len(t) : t[i] = "."}
    IN  IF dots = {} THEN (IF t # <<>> /\ AllDigits(t) THEN DigitsVal(t) ELSE Fail)
        ELSE IF Cardinality(dots) > 1 THEN Fail
        ELSE LET d == CHOOSE i \in dots : TRUE
                 ip == SubSeq(t, 1, d - 1)
                 fp == SubSeq(t, d + 1, Len(t))
             IN  IF AllDigits(ip) /\ AllDigits(fp) /\ Len(ip) + Len(fp) > 0
                 THEN DigitsVal(ip) ELSE Fail

\* str(v) of a raw value that is not absent
PyStr(v) ==
    CASE v.kind = "int" -> DecStr(v.n)
      [] v.kind = "float" -> DecStr(v.n) \o <<".">> \o DecStr(v.frac)
      [] v.kind = "text" -> v.s

\* pd.isna(v)
IsNa(v) == v.kind = "none"

\* int(v): a number is truncated, a string is parsed
PyInt(v) ==
    CASE v.kind = "int" -> v.n
      [] v.kind = "float" -> v.n
      [] v.kind = "text" -> IntOfStr(v.s)
      [] OTHER -> Fail

Ok(s) == [st |-> "ok", id |-> s]
Raise == [st |-> "raise"]
Unset == [st |-> "unset"]

\* f"{ival:0{width}X}"
FmtHex(ival, width) == ZFill(HexStr(ival), width)

----------------------------------------------------------------------------
(* test.py: norm_digits / to_hex / build_id *)

MccWidth == 3

\* norm_digits(val, min_width); min_width = 0 stands for None.  max_width is
\* accepted by the code and ignored (lines 35-37), so it is left out.
norm_digits(val, min_width) ==
    IF IsNa(val) THEN <<>>
    ELSE LET s0 == IF val.kind \in {"int", "float"} THEN DecStr(PyInt(val))
                   ELSE Strip(PyStr(val))
             s == RemoveSpace(s0)
         IN  IF min_width # 0 THEN (IF Len(s) < min_width THEN ZFill(s, min_width) ELSE s)
             ELSE s

\* to_hex with the zero padding left out
to_hex_nopad(val, width) ==
    IF IsNa(val) THEN Ok(<<>>)
    ELSE LET i1 == PyInt(val)
             ival == IF i1 # Fail THEN i1 ELSE IntOfFloatStr(PyStr(val))
         IN  IF ival = Fail THEN Raise ELSE Ok(HexStr(ival))

\* to_hex(val, width): the second int() is outside any try, so its
\* ValueError leaves the function
to_hex(val, width) ==
    IF IsNa(val) THEN Ok(<<>>)
    ELSE LET i1 == PyInt(val)
             ival == IF i1 # Fail THEN i1 ELSE IntOfFloatStr(PyStr(val))
         IN  IF ival = Fail THEN Raise ELSE Ok(FmtHex(ival, width))

build_id(mcc, mnc, lac, ci, mcc_width, mode, lw, cw) ==
    LET mcc_str == IF mcc_width # 0 THEN norm_digits(mcc, mcc_width)
                   ELSE norm_digits(mcc, 0)
        raw_mnc == norm_digits(mnc, 0)
        mnc_int == IntOfStr(raw_mnc)
        mnc_str ==
            CASE mode = "2" -> ZFill(raw_mnc, 2)
              [] mode = "3" -> ZFill(raw_mnc, 3)
              [] OTHER -> IF mnc_int # Fail
                          THEN (IF mnc_int >= 100 THEN ZFill(DecStr(mnc_int), 3)
                                ELSE ZFill(DecStr(mnc_int), 2))
                          ELSE raw_mnc
        lac_hex == to_hex(lac, lw)
        ci_hex == to_hex(ci, cw)
    IN  IF lac_hex = Raise \/ ci_hex = Raise THEN Raise
        ELSE Ok(Upper(mcc_str \o mnc_str \o lac_hex.id \o ci_hex.id))

----------------------------------------------------------------------------
(* test2.py: _digits / _to_hex / build_id *)

\* _digits(s): str(s) with all whitespace removed; a float keeps its ".0"
digits2(v) == IF IsNa(v) THEN <<>> ELSE Strip(RemoveSpace(PyStr(v)))

\* _to_hex(val, width)
to_hex2(val, width) ==
    IF IsNa(val) \/ Strip(PyStr(val)) = <<>> THEN Ok(<<>>)
    ELSE LET i1 == PyInt(val)
             ival == IF i1 # Fail THEN i1 ELSE IntOfFloatStr(CommaToDot(PyStr(val)))
         IN  IF ival = Fail THEN Raise ELSE Ok(FmtHex(ival, width))

build_id2(mcc, mnc, lac, ci, mode, lac_w, ci_w) ==
    LET mcc_s == ZFill(digits2(mcc), 3)
        mnc_raw == digits2(mnc)
        mnc_i == IntOfStr(mnc_raw)
        mnc_s ==
            CASE mode = "2" -> ZFill(mnc_raw, 2)
              [] mode = "3" -> ZFill(mnc_raw, 3)
              [] OTHER -> IF mnc_i # Fail
                          THEN (IF mnc_i < 100 THEN ZFill(DecStr(mnc_i), 2)
                                ELSE ZFill(DecStr(mnc_i), 3))
                          ELSE mnc_raw
        lac_hex == to_hex2(lac, lac_w)
        ci_hex == to_hex2(ci, ci_w)
    IN  IF lac_hex = Raise \/ ci_hex = Raise THEN Raise
        ELSE Ok(Upper(mcc_s \o mnc_s \o lac_hex.id \o ci_hex.id))

----------------------------------------------------------------------------
(* parse_excel_access.py: dec_to_hex_str / combine_dataframes *)

MncWidth == 3

\* dec_to_hex_str(value, width); width = 0 stands for None.  int() of an
\* absent value or of a string that is no integer raises.
dec_to_hex_str(value, width) ==
    LET i == PyInt(value) IN
    IF i = Fail THEN Raise ELSE Ok(ZFill(HexStr(i), width))

\* astype(str) of one cell: an absent cell of a numeric column reads "nan"
AsTypeStr(v) == IF IsNa(v) THEN <<"n", "a", "n">> ELSE PyStr(v)

\* the 'combined' column of one table row
combined(mcc, mnc, lac, ci, lw, cw, mcc_width, mnc_width) ==
    LET lac_hex == dec_to_hex_str(lac, lw)
        ci_hex == dec_to_hex_str(ci, cw)
        mcc_str == ZFill(AsTypeStr(mcc), mcc_width)
        mnc_str == ZFill(AsTypeStr(mnc), mnc_width)
    IN  IF lac_hex = Raise \/ ci_hex = Raise THEN Raise
        ELSE Ok(mcc_str \o mnc_str \o lac_hex.id \o ci_hex.id)

----------------------------------------------------------------------------
(* Rows of raw fields handed to the builders *)

NoneV == [kind |-> "none"]
I(n) == [kind |-> "int", n |-> n]
F(n, frac) == [kind |-> "float", n |-> n, frac |-> frac]
T(s) == [kind |-> "text", s |-> s]

MccVals == {NoneV, I(1), I(250), I(1000), F(250, 0), T(<<"a", "b">>)}
MncVals == {NoneV, I(1), I(120), I(1000), F(1, 5), T(<<"0", " ", "7">>)}
LacVals == {NoneV, I(10), I(65536), T(<<"a", "b">>), T(<<"1", ",", "5">>), T(<<" ">>)}
CiVals == {NoneV, I(20), I(4096), T(<<"1", ".", "5">>)}
Modes == {"auto", "2", "3"}
Widths == 3..MaxWidth

BuildInit ==
    /\ row \in [mcc : MccVals, mnc : MncVals, lac : LacVals, ci : CiVals]
    /\ mnc_mode \in Modes
    /\ lac_width \in Widths
    /\ ci_width \in Widths
    /\ res1 = Unset /\ res2 = Unset /\ res3 = Unset

\* test.py line 94: build_id with the row's fields
BuildTest ==
    /\ res1 = Unset
    /\ res1' = build_id(row.mcc, row.mnc, row.lac, row.ci, MccWidth,
                        mnc_mode, lac_width, ci_width)
    /\ UNCHANGED <<row, mnc_mode, lac_width, ci_width, res2, res3, rvars, xvars, mvars>>

\* test2.py line 89
BuildTest2 ==
    /\ res2 = Unset
    /\ res2' = build_id2(row.mcc, row.mnc, row.lac, row.ci, mnc_mode, lac_width, ci_width)
    /\ UNCHANGED <<row, mnc_mode, lac_width, ci_width, res1, res3, rvars, xvars, mvars>>

\* parse_excel_access.py lines 33-37, with the widths of the other variants
Combine ==
    /\ res3 = Unset
    /\ res3' = combined(row.mcc, row.mnc, row.lac, row.ci, lac_width, ci_width,
                        MccWidth, MncWidth)
    /\ UNCHANGED <<row, mnc_mode, lac_width, ci_width, res1, res2, rvars, xvars, mvars>>

BuildNext == BuildTest \/ BuildTest2 \/ Combine

----------------------------------------------------------------------------
(* Column resolver: test.py _normalize / _resolve_column,                   *)
(* test2.py _normalize_colnames / the head of _extract                      *)

MaxHeaders == 3

\* s in t (Python substring test); the empty string is in every string
IsSubstr(s, t) ==
    \E i \in 0..(Len(t) - Len(s)) : SubSeq(t, i + 1, i + Len(s)) = s

\* _normalize(s): re.sub(r"\s+", "", str(s)).strip().lower()
normalize(s) == Lower(Strip(RemoveSpace(s)))

\* The dict {_normalize(c): c for c in df.columns}: a key keeps the position
\* of its first insertion and the value of its last one.
RECURSIVE MappingKeys(_)
MappingKeys(hs) ==
    IF hs = <<>> THEN <<>>
    ELSE LET init == MappingKeys(SubSeq(hs, 1, Len(hs) - 1))
             k == normalize(hs[Len(hs)])
         IN  IF \E i \in 1..Len(init) : init[i] = k THEN init ELSE Append(init, k)
MappingValue(hs, k) ==
    hs[CHOOSE i \in 1..Len(hs) :
          /\ normalize(hs[i]) = k
          /\ \A j \in (i + 1)..Len(hs) : normalize(hs[j]) # k]

\* _resolve_column with the exact-match lookup left out
resolve_partial_only(hs, tgt) ==
    LET target_norm == normalize(tgt)
        keys == MappingKeys(hs)
        hits == {i \in 1..Len(keys) :
                    IsSubstr(target_norm, keys[i]) \/ IsSubstr(keys[i], target_norm)}
    IN  IF hits # {}
        THEN Ok(MappingValue(hs, keys[CHOOSE i \in hits : \A j \in hits : i <= j]))
        ELSE Raise

\* _resolve_column(df, target) of test.py; Raise stands for KeyError
resolve_column(hs, tgt) ==
    LET target_norm == normalize(tgt)
        keys == MappingKeys(hs)
        hits == {i \in 1..Len(keys) :
                    IsSubstr(target_norm, keys[i]) \/ IsSubstr(keys[i], target_norm)}
    IN  IF \E i \in 1..Len(keys) : keys[i] = target_norm
        THEN Ok(MappingValue(hs, target_norm))
        ELSE IF hits # {}
        THEN Ok(MappingValue(hs, keys[CHOOSE i \in hits : \A j \in hits : i <= j]))
        ELSE Raise

\* the column choice at the head of _extract of test2.py (lines 107-120)
resolve_column2(hs, wanted_col) ==
    LET wanted_key == Lower(Strip(RemoveSpace(wanted_col)))
        keys == MappingKeys(hs)
        hits == {i \in 1..Len(keys) :
                    IsSubstr(wanted_key, keys[i]) \/ IsSubstr(keys[i], wanted_key)}
    IN  IF ~(\E i \in 1..Len(keys) : keys[i] = wanted_key)
        THEN (IF hits # {}
              THEN Ok(MappingValue(hs, keys[CHOOSE i \in hits : \A j \in hits : i <= j]))
              ELSE Raise)
        ELSE Ok(MappingValue(hs, wanted_key))

HeaderPool ==
    { <<"G", "C", "I">>, <<"g", "c", "i", " ">>, <<"G", "C", "I", " ", "I", "D">>,
      <<"g", "c", "i", "i", "d">>, <<"C", "I">>, <<"N", "o", "t", "e", "s">>,
      <<"S", "A", "I">> }
Targets == { <<"G", "C", "I">>, <<"S", "A", "I">>, <<"G", " ", "c", "i", "I", "D">> }

\* header lists: distinct headers, as a spreadsheet reader delivers them
HeaderLists ==
    UNION { {h \in [1..n -> HeaderPool] : \A i, j \in 1..n : i # j => h[i] # h[j]}
            : n \in 1..MaxHeaders }

ResolveInit ==
    /\ headers \in HeaderLists
    /\ target \in Targets
    /\ resolved = Unset

ResolveTest ==
    /\ resolved = Unset
    /\ resolved' = [by |-> "test"] @@ resolve_column(headers, target)
    /\ UNCHANGED <<headers, target, bvars, xvars, mvars>>

ResolveTest2 ==
    /\ resolved = Unset
    /\ resolved' = [by |-> "test2"] @@ resolve_column2(headers, target)
    /\ UNCHANGED <<headers, target, bvars, xvars, mvars>>

ResolveNext == ResolveTest \/ ResolveTest2

----------------------------------------------------------------------------
(* Reading one column of a workbook: test.py load_excel_column,             *)
(* test2.py read_excel_column.  A workbook is a sequence of sheets in file  *)
(* order; a sheet is [name, headers, cols], cols[j] the cells under         *)
(* headers[j].  sheet = 0 stands for sheet=None.                            *)

MaxSheets == 3

ColumnOf(sh, h) == sh.cols[CHOOSE j \in 1..Len(sh.headers) : sh.headers[j] = h]

\* df[col].dropna().astype(str).map(lambda x: x.strip().upper())
\*        .str.replace(r"\s+", "", regex=True).tolist()
RECURSIVE CleanCells(_)
CleanCells(cells) ==
    IF cells = <<>> THEN <<>>
    ELSE IF IsNa(Head(cells)) THEN CleanCells(Tail(cells))
    ELSE <<RemoveSpace(Upper(Strip(PyStr(Head(cells)))))>> \o CleanCells(Tail(cells))

\* _extract_from_df(df) of test.py; Raise stands for KeyError
extract_from_df(sh, col) ==
    LET c == resolve_column(sh.headers, col) IN
    IF c = Raise THEN Raise ELSE Ok(CleanCells(ColumnOf(sh, c.id)))

\* _extract(df) of test2.py
extract2(sh, wanted_col) ==
    LET c == resolve_column2(sh.headers, wanted_col) IN
    IF c = Raise THEN Raise ELSE Ok(CleanCells(ColumnOf(sh, c.id)))

\* the sheets visited last to first
SheetOrderReversed(b) == [i \in 1..Len(b) |-> Len(b) + 1 - i]

\* the order in which "for name, df in obj.items()" visits the sheets of the
\* dict that pd.read_excel(sheet_name=None) returns
SheetOrder(b) == [i \in 1..Len(b) |-> i]

TriedEntry(sh) == [name |-> sh.name, headers |-> sh.headers]
NotFound(detail) == [st |-> "raise", detail |-> detail]

\* the loops of test.py lines 131-138 and of test2.py lines 141-149
RECURSIVE LoopSheets(_, _, _, _)
LoopSheets(b, col, i, seen) ==
    IF i > Len(SheetOrder(b)) THEN NotFound(seen)
    ELSE LET sh == b[SheetOrder(b)[i]]
             r == extract_from_df(sh, col)
         IN  IF r # Raise THEN r ELSE LoopSheets(b, col, i + 1, Append(seen, TriedEntry(sh)))
RECURSIVE LoopSheets2(_, _, _, _)
LoopSheets2(b, col, i, seen) ==
    IF i > Len(SheetOrder(b)) THEN NotFound(seen)
    ELSE LET sh == b[SheetOrder(b)[i]]
             r == extract2(sh, col)
         IN  IF r # Raise THEN r ELSE LoopSheets2(b, col, i + 1, Append(seen, TriedEntry(sh)))

\* load_excel_column(path, column, sheet) of test.py, as one call
load_excel_column(b, col, sh) ==
    IF sh # 0
    THEN (IF extract_from_df(b[sh], col) = Raise THEN NotFound(<<>>)
          ELSE extract_from_df(b[sh], col))
    ELSE LoopSheets(b, col, 1, <<>>)

\* read_excel_column(path, wanted_col, sheet) of test2.py, as one call
read_excel_column2(b, col, sh) ==
    IF sh # 0
    THEN (IF extract2(b[sh], col) = Raise THEN NotFound(<<>>) ELSE extract2(b[sh], col))
    ELSE IF extract2(b[1], col) # Raise THEN extract2(b[1], col)
    ELSE LoopSheets2(b, col, 1, <<>>)

ShNotes == [name |-> "Notes", headers |-> << <<"N", "o", "t", "e", "s">> >>,
            cols |-> << <<T(<<"x">>)>> >>]
ShGciId == [name |-> "Report",
            headers |-> << <<"G", "C", "I", " ", "I", "D">>, <<"N", "o", "t", "e", "s">> >>,
            cols |-> << <<T(<<" ", "a", "b", " ", "1">>), NoneV, T(<<"c">>)>>,
                        <<T(<<"n">>)>> >>]
ShGci == [name |-> "Cells", headers |-> << <<"g", "c", "i", " ">> >>,
          cols |-> << <<T(<<"d", " ", "d">>), I(5)>> >>]
ShSai == [name |-> "Sai", headers |-> << <<"S", "A", "I">>, <<"C", "I">> >>,
          cols |-> << <<T(<<"e">>)>>, <<T(<<"f">>)>> >>]
SheetPool == {ShNotes, ShGciId, ShGci, ShSai}
Columns == { <<"G", "C", "I">>, <<"S", "A", "I">> }

Books ==
    UNION { {b \in [1..n -> SheetPool] : \A i, j \in 1..n : i # j => b[i] # b[j]}
            : n \in 1..MaxSheets }

ReadInit ==
    /\ book \in Books
    /\ column \in Columns
    /\ sheet \in 0..Len(book)
    /\ xvariant \in {"test", "test2"}
    /\ xpc = "start" /\ xi = 0 /\ tried = <<>> /\ attempts = <<>> /\ xout = Unset

\* test.py line 120 and lines 128, 139-140: with a sheet given the frame is
\* extracted at once and KeyError leaves the function; with none the dict of
\* all sheets is iterated
LoadStart ==
    /\ xvariant = "test" /\ xpc = "start"
    /\ IF sheet # 0
       THEN LET r == extract_from_df(book[sheet], column) IN
            /\ attempts' = Append(attempts, sheet)
            /\ xout' = IF r = Raise THEN NotFound(<<>>) ELSE r
            /\ xpc' = IF r = Raise THEN "raised" ELSE "returned"
            /\ xi' = xi
       ELSE /\ xpc' = "loop" /\ xi' = 1
            /\ UNCHANGED <<attempts, xout>>
    /\ UNCHANGED <<book, column, sheet, xvariant, tried, bvars, rvars, mvars>>

\* test.py lines 131-135: one pass of the loop
LoadTrySheet ==
    /\ xvariant = "test" /\ xpc = "loop" /\ xi <= Len(SheetOrder(book))
    /\ LET k == SheetOrder(book)[xi]
           r == extract_from_df(book[k], column)
       IN  /\ attempts' = Append(attempts, k)
           /\ IF r # Raise
              THEN xout' = r /\ xpc' = "returned" /\ UNCHANGED <<xi, tried>>
              ELSE /\ tried' = Append(tried, TriedEntry(book[k]))
                   /\ xi' = xi + 1
                   /\ UNCHANGED <<xout, xpc>>
    /\ UNCHANGED <<book, column, sheet, xvariant, bvars, rvars, mvars>>

\* test.py lines 137-138
LoadNotFound ==
    /\ xvariant = "test" /\ xpc = "loop" /\ xi > Len(SheetOrder(book))
    /\ xout' = NotFound(tried) /\ xpc' = "raised"
    /\ UNCHANGED <<book, column, sheet, xvariant, xi, tried, attempts, bvars, rvars, mvars>>

\* test2.py lines 127-129
ReadNamed2 ==
    /\ xvariant = "test2" /\ xpc = "start" /\ sheet # 0
    /\ LET r == extract2(book[sheet], column) IN
       /\ attempts' = Append(attempts, sheet)
       /\ xout' = IF r = Raise THEN NotFound(<<>>) ELSE r
       /\ xpc' = IF r = Raise THEN "raised" ELSE "returned"
    /\ UNCHANGED <<book, column, sheet, xvariant, xi, tried, bvars, rvars, mvars>>

\* test2.py lines 132-139: the first sheet alone, then all sheets are read
ReadFirst2 ==
    /\ xvariant = "test2" /\ xpc = "start" /\ sheet = 0
    /\ LET r == extract2(book[1], column) IN
       /\ attempts' = Append(attempts, 1)
       /\ IF r # Raise
          THEN xout' = r /\ xpc' = "returned" /\ xi' = xi
          ELSE xpc' = "loop" /\ xi' = 1 /\ xout' = xout
    /\ UNCHANGED <<book, column, sheet, xvariant, tried, bvars, rvars, mvars>>

\* test2.py lines 141-145
ReadTrySheet2 ==
    /\ xvariant = "test2" /\ xpc = "loop" /\ xi <= Len(SheetOrder(book))
    /\ LET k == SheetOrder(book)[xi]
           r == extract2(book[k], column)
       IN  /\ attempts' = Append(attempts, k)
           /\ IF r # Raise
              THEN xout' = r /\ xpc' = "returned" /\ UNCHANGED <<xi, tried>>
              ELSE /\ tried' = Append(tried, TriedEntry(book[k]))
                   /\ xi' = xi + 1
                   /\ UNCHANGED <<xout, xpc>>
    /\ UNCHANGED <<book, column, sheet, xvariant, bvars, rvars, mvars>>

\* test2.py lines 147-149
ReadNotFound2 ==
    /\ xvariant = "test2" /\ xpc = "loop" /\ xi > Len(SheetOrder(book))
    /\ xout' = NotFound(tried) /\ xpc' = "raised"
    /\ UNCHANGED <<book, column, sheet, xvariant, xi, tried, attempts, bvars, rvars, mvars>>

ReadNext ==
    \/ LoadStart \/ LoadTrySheet \/ LoadNotFound
    \/ ReadNamed2 \/ ReadFirst2 \/ ReadTrySheet2 \/ ReadNotFound2

----------------------------------------------------------------------------
(* One run of main(): test.py ("test"), test2.py ("test2") and              *)
(* parse_excel_access.py ("parse").  conn is the database connection:       *)
(* "none" (never opened), "open" or "closed".  printed is what the run has  *)
(* printed, csv the file it has written.                                    *)

MaxRows == 2
MaxCands == 4

Range(q) == {q[i] : i \in 1..Len(q)}

\* the loop of load_access_compound_ids (test.py lines 92-100): empty
\* identifiers are skipped, an exception of build_id leaves the function
RECURSIVE BuildIds(_, _, _, _)
BuildIds(rows, mode, lw, cw) ==
    IF rows = <<>> THEN Ok(<<>>)
    ELSE LET r == Head(rows)
             s == build_id(r.mcc, r.mnc, r.lac, r.ci, MccWidth, mode, lw, cw)
             rest == BuildIds(Tail(rows), mode, lw, cw)
         IN  IF s = Raise \/ rest = Raise THEN Raise
             ELSE IF s.id # <<>> THEN Ok(<<s.id>> \o rest.id) ELSE rest

\* the loop and the filter of fetch_access_ids (test2.py lines 86-90)
RECURSIVE BuildIds2(_, _, _, _)
BuildIds2(rows, mode, lw, cw) ==
    IF rows = <<>> THEN Ok(<<>>)
    ELSE LET r == Head(rows)
             s == build_id2(r.mcc, r.mnc, r.lac, r.ci, mode, lw, cw)
             rest == BuildIds2(Tail(rows), mode, lw, cw)
         IN  IF s = Raise \/ rest = Raise THEN Raise
             ELSE IF s.id # <<>> THEN Ok(<<s.id>> \o rest.id) ELSE rest

\* the 'combined' column over all rows (parse_excel_access.py lines 33-37)
RECURSIVE CombineRows(_, _, _)
CombineRows(rows, lw, cw) ==
    IF rows = <<>> THEN Ok(<<>>)
    ELSE LET r == Head(rows)
             s == combined(r.mcc, r.mnc, r.lac, r.ci, lw, cw, MccWidth, MncWidth)
             rest == CombineRows(Tail(rows), lw, cw)
         IN  IF s = Raise \/ rest = Raise THEN Raise ELSE Ok(<<s.id>> \o rest.id)

\* read_excel_column of parse_excel_access.py: the first sheet, a header
\* whose lower-case form is 'gsi', else 'sai'; Raise stands for ValueError
read_excel_column3(b) ==
    LET hs == b[1].headers
        Has(k) == \E j \in 1..Len(hs) : Lower(hs[j]) = k
        Last(k) == hs[CHOOSE j \in 1..Len(hs) :
                         /\ Lower(hs[j]) = k
                         /\ \A m \in (j + 1)..Len(hs) : Lower(hs[m]) # k]
    IN  IF Has(<<"g", "s", "i">>) THEN Ok(ColumnOf(b[1], Last(<<"g", "s", "i">>)))
        ELSE IF Has(<<"s", "a", "i">>) THEN Ok(ColumnOf(b[1], Last(<<"s", "a", "i">>)))
        ELSE Raise

\* the comprehension with "in" for "not in"
DiffKeepMembers(cands, set1) == SelectSeq(cands, LAMBDA g : g \in set1)

\* [g for g in var2 if g not in set1]
Diff(cands, set1) == SelectSeq(cands, LAMBDA g : g \notin set1)

Min(a, b) == IF a < b THEN a ELSE b

\* configuration of a run
GciColumn == <<"G", "C", "I">>
SaiColumn == <<"S", "A", "I">>
RunMode == "auto"
LacHexWidth == 4
CiHexWidth == 4

Row(a, b, c, d) == [mcc |-> a, mnc |-> b, lac |-> c, ci |-> d]
RowPool ==
    { Row(I(250), I(1), I(10), I(20)),          \* 25001000A0014
      Row(I(250), I(2), F(10, 0), I(20)),       \* 25002000A0014
      Row(NoneV, NoneV, NoneV, NoneV),          \* all fields absent
      Row(I(250), I(1), T(<<"a", "b">>), I(20)) }
Tables == UNION { [1..n -> RowPool] : n \in 0..MaxRows }

IdA == <<"2", "5", "0", "0", "1", "0", "0", "0", "A", "0", "0", "1", "4">>
IdB == <<"2", "5", "0", "0", "2", "0", "0", "0", "A", "0", "0", "1", "4">>
IdC == <<"A", "B", "C", "1", "2", "3">>
ShGciRun == [name |-> "GCI", headers |-> << <<"G", "C", "I">> >>,
             cols |-> << <<T(Lower(IdA) \o <<" ">>), T(IdC), NoneV, T(IdC), T(IdB)>> >>]
ShGciIdRun == [name |-> "Report",
               headers |-> << <<"N", "o", "t", "e", "s">>, <<"G", "C", "I", " ", "I", "D">> >>,
               cols |-> << <<T(<<"n">>)>>, <<T(IdC), T(IdA)>> >>]
ShSaiRun == [name |-> "SAI", headers |-> << <<"s", "a", "i">> >>,
             cols |-> << <<T(IdB), T(<<"X">>)>> >>]
GBooks == { <<ShGciRun>>, <<ShNotes, ShGciIdRun>>, <<ShSaiRun, ShNotes>> }
SBooks == { <<ShSaiRun>>, <<ShNotes>> }

RunInit ==
    /\ variant \in {"test", "test2", "parse"}
    /\ pc = "start" /\ conn = "none"
    /\ table \in Tables
    /\ gbook \in GBooks
    /\ sbook \in SBooks
    /\ var1 = <<>> /\ var2 = <<>> /\ var3 = <<>>
    /\ NGCI = <<>> /\ NSAI = <<>> /\ printed = <<>> /\ csv = Unset

Others == <<bvars, rvars, xvars>>

\* connect_access: test.py lines 9-24 / test2.py lines 30-35, called at
\* test.py line 85 / test2.py line 80.  The driver connects or raises; the
\* error is re-raised (RuntimeError / SystemExit) and ends the run.
Connect ==
    /\ variant \in {"test", "test2"} /\ pc = "start"
    /\ \/ conn' = "open" /\ pc' = "query"
       \/ conn' = conn /\ pc' = "failed"
    /\ UNCHANGED <<variant, table, gbook, sbook, var1, var2, var3, NGCI, NSAI,
                   printed, csv, Others>>

\* test.py lines 86-88: pd.read_sql inside try; it returns or raises
Query ==
    /\ variant = "test" /\ pc = "query"
    /\ pc' \in {"finally_ok", "finally_err"}
    /\ UNCHANGED <<variant, conn, table, gbook, sbook, var1, var2, var3, NGCI, NSAI,
                   printed, csv, Others>>

\* test.py lines 89-90: finally: conn.close()
Close ==
    /\ variant = "test" /\ pc \in {"finally_ok", "finally_err"}
    /\ conn' = "closed"
    /\ pc' = IF pc = "finally_ok" THEN "build" ELSE "failed"
    /\ UNCHANGED <<variant, table, gbook, sbook, var1, var2, var3, NGCI, NSAI,
                   printed, csv, Others>>

\* test.py lines 92-100 and line 174: the identifiers of the rows
Build ==
    /\ variant = "test" /\ pc = "build"
    /\ LET ids == BuildIds(table, RunMode, LacHexWidth, CiHexWidth) IN
       IF ids = Raise THEN pc' = "failed" /\ var1' = var1
       ELSE pc' = "gci" /\ var1' = [k \in 1..Len(ids.id) |-> Upper(ids.id[k])]
    /\ UNCHANGED <<variant, conn, table, gbook, sbook, var2, var3, NGCI, NSAI,
                   printed, csv, Others>>

\* test2.py lines 82-85: execute and fetchall inside try
Query2 ==
    /\ variant = "test2" /\ pc = "query"
    /\ pc' \in {"build", "finally_err"}
    /\ UNCHANGED <<variant, conn, table, gbook, sbook, var1, var2, var3, NGCI, NSAI,
                   printed, csv, Others>>

\* test2.py lines 86-90, still inside try
Build2 ==
    /\ variant = "test2" /\ pc = "build"
    /\ LET ids == BuildIds2(table, RunMode, LacHexWidth, CiHexWidth) IN
       IF ids = Raise THEN pc' = "finally_err" /\ var1' = var1
       ELSE pc' = "finally_ok" /\ var1' = ids.id
    /\ UNCHANGED <<variant, conn, table, gbook, sbook, var2, var3, NGCI, NSAI,
                   printed, csv, Others>>

\* test2.py lines 91-92: finally: conn.close()
Close2 ==
    /\ variant = "test2" /\ pc \in {"finally_ok", "finally_err"}
    /\ conn' = "closed"
    /\ pc' = IF pc = "finally_ok" THEN "gci" ELSE "failed"
    /\ UNCHANGED <<variant, table, gbook, sbook, var1, var2, var3, NGCI, NSAI,
                   printed, csv, Others>>

\* the GCI load with a failure swallowed and an empty list used
LoadGCIIgnoringFailure ==
    /\ variant \in {"test", "test2"} /\ pc = "gci"
    /\ LET r == IF variant = "test" THEN load_excel_column(gbook, GciColumn, 0)
                ELSE read_excel_column2(gbook, GciColumn, 0)
       IN  pc' = "sai" /\ var2' = IF r.st = "raise" THEN <<>> ELSE r.id
    /\ UNCHANGED <<variant, conn, table, gbook, sbook, var1, var3, NGCI, NSAI,
                   printed, csv, Others>>

\* test.py line 175 / test2.py line 157
LoadGCI ==
    /\ variant \in {"test", "test2"} /\ pc = "gci"
    /\ LET r == IF variant = "test" THEN load_excel_column(gbook, GciColumn, 0)
                ELSE read_excel_column2(gbook, GciColumn, 0)
       IN  IF r.st = "raise" THEN pc' = "failed" /\ var2' = var2
           ELSE pc' = "sai" /\ var2' = r.id
    /\ UNCHANGED <<variant, conn, table, gbook, sbook, var1, var3, NGCI, NSAI,
                   printed, csv, Others>>

\* test.py line 176 / test2.py line 160
LoadSAI ==
    /\ variant \in {"test", "test2"} /\ pc = "sai"
    /\ LET r == IF variant = "test" THEN load_excel_column(sbook, SaiColumn, 0)
                ELSE read_excel_column2(sbook, SaiColumn, 0)
       IN  IF r.st = "raise" THEN pc' = "failed" /\ var3' = var3
           ELSE pc' = "diff" /\ var3' = r.id
    /\ UNCHANGED <<variant, conn, table, gbook, sbook, var1, var2, NGCI, NSAI,
                   printed, csv, Others>>

\* test.py lines 178-180 / test2.py lines 163-165
DoDiff ==
    /\ variant \in {"test", "test2"} /\ pc = "diff"
    /\ NGCI' = Diff(var2, Range(var1))
    /\ NSAI' = Diff(var3, Range(var1))
    /\ pc' = "print"
    /\ UNCHANGED <<variant, conn, table, gbook, sbook, var1, var2, var3,
                   printed, csv, Others>>

\* the counts with len(set1) for len(var1)
PrintCountsUnique ==
    /\ variant \in {"test", "test2"} /\ pc = "print"
    /\ printed' = <<Cardinality(Range(var1)), Len(var2), Len(var3), Len(NGCI), Len(NSAI)>>
    /\ pc' = "save"
    /\ UNCHANGED <<variant, conn, table, gbook, sbook, var1, var2, var3, NGCI, NSAI,
                   csv, Others>>

\* test.py lines 183-187 / test2.py lines 168-172: the five counts
PrintCounts ==
    /\ variant \in {"test", "test2"} /\ pc = "print"
    /\ printed' = <<Len(var1), Len(var2), Len(var3), Len(NGCI), Len(NSAI)>>
    /\ pc' = "save"
    /\ UNCHANGED <<variant, conn, table, gbook, sbook, var1, var2, var3, NGCI, NSAI,
                   csv, Others>>

\* test.py lines 190-197 / test2.py lines 182-188: the two columns
SaveCsv ==
    /\ variant \in {"test", "test2"} /\ pc = "save"
    /\ csv' = [NGCI |-> NGCI, NSAI |-> NSAI]
    /\ pc' = "done"
    /\ UNCHANGED <<variant, conn, table, gbook, sbook, var1, var2, var3, NGCI, NSAI,
                   printed, Others>>

\* test.py line 190 with --save-csv not given (test2.py sets SAVE_CSV)
SkipCsv ==
    /\ variant = "test" /\ pc = "save"
    /\ pc' = "done"
    /\ UNCHANGED <<variant, conn, table, gbook, sbook, var1, var2, var3, NGCI, NSAI,
                   printed, csv, Others>>

\* parse_excel_access.py line 46: the spreadsheet column is read first
ReadExcel3 ==
    /\ variant = "parse" /\ pc = "start"
    /\ LET r == read_excel_column3(gbook) IN
       IF r = Raise THEN pc' = "failed" /\ var2' = var2
       ELSE pc' = "connect" /\ var2' = r.id
    /\ UNCHANGED <<variant, conn, table, gbook, sbook, var1, var3, NGCI, NSAI,
                   printed, csv, Others>>

\* parse_excel_access.py line 26: pyodbc.connect connects or raises
Connect3 ==
    /\ variant = "parse" /\ pc = "connect"
    /\ \/ conn' = "open" /\ pc' = "query"
       \/ conn' = conn /\ pc' = "failed"
    /\ UNCHANGED <<variant, table, gbook, sbook, var1, var2, var3, NGCI, NSAI,
                   printed, csv, Others>>

\* parse_excel_access.py lines 27-28: pd.read_sql inside the with block
Query3 ==
    /\ variant = "parse" /\ pc = "query"
    /\ pc' \in {"exit_ok", "exit_err"}
    /\ UNCHANGED <<variant, conn, table, gbook, sbook, var1, var2, var3, NGCI, NSAI,
                   printed, csv, Others>>

\* parse_excel_access.py lines 26-28: the end of the with block.  The
\* context manager of a pyodbc connection commits or rolls back and does not
\* close, and the function calls close() nowhere.  An exception leaves the
\* function and ends the run (main catches nothing) with the connection as
\* it is.
WithExit3 ==
    /\ variant = "parse" /\ pc \in {"exit_ok", "exit_err"}
    /\ conn' = conn
    /\ pc' = IF pc = "exit_ok" THEN "return" ELSE "failed"
    /\ UNCHANGED <<variant, table, gbook, sbook, var1, var2, var3, NGCI, NSAI,
                   printed, csv, Others>>

\* parse_excel_access.py line 29: return df.  The local conn is the last
\* reference to the connection; dropping it runs the object's finalizer,
\* which closes the handle.
Return3 ==
    /\ variant = "parse" /\ pc = "return"
    /\ conn' = "closed"
    /\ pc' = "combine"
    /\ UNCHANGED <<variant, table, gbook, sbook, var1, var2, var3, NGCI, NSAI,
                   printed, csv, Others>>

\* parse_excel_access.py line 48 (lines 31-40), widths None
Combine3 ==
    /\ variant = "parse" /\ pc = "combine"
    /\ LET ids == CombineRows(table, 0, 0) IN
       IF ids = Raise THEN pc' = "failed" /\ var1' = var1
       ELSE pc' = "save" /\ var1' = ids.id
    /\ UNCHANGED <<variant, conn, table, gbook, sbook, var2, var3, NGCI, NSAI,
                   printed, csv, Others>>

\* parse_excel_access.py lines 38-39 and 49-50: the first min_len rows
Save3 ==
    /\ variant = "parse" /\ pc = "save"
    /\ LET min_len == Min(Len(var2), Len(var1)) IN
       csv' = [gsi |-> SubSeq(var2, 1, min_len), combined |-> SubSeq(var1, 1, min_len)]
    /\ pc' = "print"
    /\ UNCHANGED <<variant, conn, table, gbook, sbook, var1, var2, var3, NGCI, NSAI,
                   printed, Others>>

\* parse_excel_access.py lines 51-52
Print3 ==
    /\ variant = "parse" /\ pc = "print"
    /\ printed' = <<"saved">>
    /\ pc' = "done"
    /\ UNCHANGED <<variant, conn, table, gbook, sbook, var1, var2, var3, NGCI, NSAI,
                   csv, Others>>

RunNext ==
    \/ Connect \/ Query \/ Close \/ Build \/ Query2 \/ Build2 \/ Close2
    \/ LoadGCI \/ LoadSAI \/ DoDiff \/ PrintCounts \/ SaveCsv \/ SkipCsv
    \/ ReadExcel3 \/ Connect3 \/ Query3 \/ WithExit3 \/ Return3 \/ Combine3 \/ Save3 \/ Print3

\* the reconciliation alone, on loaded lists
IdPool == { <<"A">>, <<"B">>, <<"C">> }
CandLists == UNION { [1..n -> IdPool] : n \in 0..MaxCands }
DiffInit ==
    /\ variant \in {"test", "test2"}
    /\ pc = "diff" /\ conn = "closed"
    /\ table = <<>> /\ gbook = <<>> /\ sbook = <<>>
    /\ var1 \in { <<>>, << <<"A">>, <<"B">> >>, << <<"B">>, <<"B">> >>, << <<"C">> >> }
    /\ var2 \in CandLists
    /\ var3 \in { <<>>, << <<"B">>, <<"C">>, <<"B">> >> }
    /\ NGCI = <<>> /\ NSAI = <<>> /\ printed = <<>> /\ csv = Unset
DiffNext == DoDiff \/ PrintCounts \/ SaveCsv \/ SkipCsv

\* a specification about one part of the program leaves the other parts idle
BuildIdle ==
    /\ row = NoneV /\ mnc_mode = "auto" /\ lac_width = 0 /\ ci_width = 0
    /\ res1 = Unset /\ res2 = Unset /\ res3 = Unset
ResolveIdle == headers = <<>> /\ target = <<>> /\ resolved = Unset
ReadIdle ==
    /\ book = <<>> /\ column = <<>> /\ sheet = 0 /\ xvariant = "none"
    /\ xpc = "idle" /\ xi = 0 /\ tried = <<>> /\ attempts = <<>> /\ xout = Unset
RunIdle ==
    /\ variant = "none" /\ pc = "idle" /\ conn = "none" /\ table = <<>>
    /\ gbook = <<>> /\ sbook = <<>> /\ var1 = <<>> /\ var2 = <<>> /\ var3 = <<>>
    /\ NGCI = <<>> /\ NSAI = <<>> /\ printed = <<>> /\ csv = Unset

InitBuild == BuildInit /\ ResolveIdle /\ ReadIdle /\ RunIdle
InitResolve == ResolveInit /\ BuildIdle /\ ReadIdle /\ RunIdle
InitRead == ReadInit /\ BuildIdle /\ ResolveIdle /\ RunIdle
InitRun == RunInit /\ BuildIdle /\ ResolveIdle /\ ReadIdle
InitDiff == DiffInit /\ BuildIdle /\ ResolveIdle /\ ReadIdle

SpecBuild == InitBuild /\ [][BuildNext]_vars
SpecResolve == InitResolve /\ [][ResolveNext]_vars
SpecRead == InitRead /\ [][ReadNext]_vars
SpecRun == InitRun /\ [][RunNext]_vars
SpecDiff == InitDiff /\ [][DiffNext]_vars

----------------------------------------------------------------------------
(* Claims about the reconciliation (SpecDiff) *)

Kept(cands, S) == {i \in 1..Len(cands) : cands[i] \notin S}
\* out lists exactly the elements of cands at the positions Kept, in order
IsOrderedRest(out, cands, S) ==
    /\ Len(out) = Cardinality(Kept(cands, S))
    /\ \A k \in Kept(cands, S) :
          out[Cardinality({i \in Kept(cands, S) : i <= k})] = cands[k]
Occurrences(q, x) == Cardinality({i \in 1..Len(q) : q[i] = x})
Diffed == pc \in {"print", "save", "done"}

\* C1: NGCI / NSAI is the sub-sequence of the candidate list, in original
\* order, of the elements absent from the canonical set; an absent element
\* occurs in the result as often as in the candidates, a member never.
C1_DiffIsOrderedRest ==
    Diffed =>
        /\ IsOrderedRest(NGCI, var2, Range(var1))
        /\ IsOrderedRest(NSAI, var3, Range(var1))
        /\ \A x \in IdPool :
              Occurrences(NGCI, x) = IF x \in Range(var1) THEN 0 ELSE Occurrences(var2, x)
C1_Witness ==
    /\ Diffed
    /\ var1 = << <<"A">>, <<"B">> >>
    /\ var2 = << <<"A">>, <<"C">>, <<"C">>, <<"B">> >>
    /\ NGCI = << <<"C">>, <<"C">> >>

----------------------------------------------------------------------------
(* Claims about the identifier builders (SpecBuild) *)

Built == {res1, res2} \ {Unset}
IntRow == \A f \in {row.mcc, row.mnc, row.lac, row.ci} : f.kind = "int"
HexFits == row.lac.n < 16 ^ lac_width /\ row.ci.n < 16 ^ ci_width
MncLens == CASE mnc_mode = "2" -> {2} [] mnc_mode = "3" -> {3} [] OTHER -> {2, 3}
DecFits ==
    /\ row.mcc.n < 10 ^ MccWidth
    /\ row.mnc.n < (IF mnc_mode = "2" THEN 100 ELSE 1000)
MncLen ==
    CASE mnc_mode = "2" -> 2
      [] mnc_mode = "3" -> 3
      [] OTHER -> IF row.mnc.n < 100 THEN 2 ELSE 3

Parseable(v) ==
    \/ v.kind \in {"int", "float"}
    \/ v.kind = "text" /\ IntOfStr(v.s) # Fail
AllParseable == \A f \in {row.mcc, row.mnc, row.lac, row.ci} : Parseable(f)

\* C3: build_id returns a non-empty identifier only if all four raw fields
\* are parseable as integers; with a field absent or unparseable it returns
\* the empty string.
C3_EmptyUnlessAllParseable ==
    \A r \in Built : (r.st = "ok" /\ ~AllParseable) => r.id = <<>>

\* C4: whatever the shape of the four raw fields, building the identifier
\* returns a string and never raises.
C4_BuildNeverRaises == \A r \in Built : r.st = "ok"

\* C10: for the same row, mode and widths, build_id of test.py, build_id of
\* test2.py and the 'combined' column of parse_excel_access.py agree.
C10_VariantsAgree ==
    /\ (res1 # Unset /\ res2 # Unset) => res1 = res2
    /\ (res1 # Unset /\ res3 # Unset) => res1 = res3

----------------------------------------------------------------------------
(* Claims about the column resolver (SpecResolve) *)

Exact(i) == normalize(headers[i]) = normalize(target)
Partial(i) ==
    \/ IsSubstr(normalize(target), normalize(headers[i]))
    \/ IsSubstr(normalize(headers[i]), normalize(target))
Least(S) == CHOOSE i \in S : \A j \in S : i <= j
Greatest(S) == CHOOSE i \in S : \A j \in S : j <= i
Exacts == {i \in 1..Len(headers) : Exact(i)}
Partials == {i \in 1..Len(headers) : Partial(i)}
\* the last header with the normalized form of headers[i]
LastLike(i) ==
    Greatest({j \in 1..Len(headers) : normalize(headers[j]) = normalize(headers[i])})

\* C5 as claimed: (a) a header equal to the logical name after
\* normalization, if one exists; otherwise (b) the first header in source
\* order whose normalized form contains the normalized name or is contained
\* in it; column-not-found exactly when there is neither.
C5_FirstMatchingHeader ==
    resolved # Unset =>
        IF Exacts # {}
        THEN resolved.st = "ok" /\ \E i \in Exacts : resolved.id = headers[i]
        ELSE IF Partials # {}
        THEN resolved.st = "ok" /\ resolved.id = headers[Least(Partials)]
        ELSE resolved.st = "raise"

\* C5 as amended: in case (b) the header returned is the last header that
\* has the same normalized form as the first partially matching header.
C5_LastOfFirstMatchingForm ==
    resolved # Unset =>
        IF Exacts # {}
        THEN resolved.st = "ok" /\ \E i \in Exacts : resolved.id = headers[i]
        ELSE IF Partials # {}
        THEN resolved.st = "ok" /\ resolved.id = headers[LastLike(Least(Partials))]
        ELSE resolved.st = "raise"
C5_Witness ==
    /\ resolved # Unset /\ resolved.st = "ok"
    /\ Exacts = {} /\ Partials # {}
    /\ LastLike(Least(Partials)) # Least(Partials)
    /\ resolved.id = headers[LastLike(Least(Partials))]

----------------------------------------------------------------------------
(* Claims about the multi-sheet fallback (SpecRead) *)

HasColumn(sh, col) ==
    \E j \in 1..Len(sh.headers) :
        \/ IsSubstr(normalize(col), normalize(sh.headers[j]))
        \/ IsSubstr(normalize(sh.headers[j]), normalize(col))
Hits == {i \in 1..Len(book) : HasColumn(book[i], column)}
ExtractOf(i) ==
    IF xvariant = "test" THEN extract_from_df(book[i], column) ELSE extract2(book[i], column)

\* C6: with no sheet given, the first sheet is tried first and then the
\* sheets in source order; the list returned is the one of the first sheet on
\* which the column resolves; column-not-found is raised only after every
\* sheet has been tried, and carries the header list of every sheet.
C6_FirstResolvingSheet ==
    sheet = 0 =>
        /\ attempts # <<>> => attempts[1] = 1
        /\ \A k \in 1..(Len(attempts) - 1) :
              /\ attempts[k + 1] \in {attempts[k], attempts[k] + 1}
              /\ attempts[k] \notin Hits
        /\ xpc = "returned" => Hits # {} /\ xout = ExtractOf(Least(Hits))
        /\ xpc = "raised" =>
              /\ Hits = {}
              /\ {attempts[k] : k \in 1..Len(attempts)} = 1..Len(book)
              /\ xout.detail = [i \in 1..Len(book) |-> TriedEntry(book[i])]
C6_Witness ==
    /\ sheet = 0 /\ xvariant = "test2" /\ xpc = "returned"
    /\ Len(book) = 3 /\ Least(Hits) = 2 /\ Cardinality(Hits) = 2
    /\ xout = ExtractOf(2)

----------------------------------------------------------------------------
(* Claims about the run (SpecRun) *)

Resolvable(b, col) == \E i \in 1..Len(b) : HasColumn(b[i], col)
HasGsiOrSai(b) ==
    \E j \in 1..Len(b[1].headers) :
        Lower(b[1].headers[j]) \in { <<"g", "s", "i">>, <<"s", "a", "i">> }
Output == printed # <<>> \/ csv # Unset

\* C7: a run whose connection fails or whose GCI or SAI column resolves on no
\* sheet ends without summary counts and without the CSV; counts and CSV
\* come only after the canonical identifiers and both lists are loaded.
C7_AbortBeforeOutput ==
    /\ pc = "failed" => ~Output
    /\ Output =>
          /\ conn # "none"
          /\ variant \in {"test", "test2"} =>
                /\ Resolvable(gbook, GciColumn) /\ Resolvable(sbook, SaiColumn)
                /\ Diffed
          /\ variant = "parse" => HasGsiOrSai(gbook)
C7_Witness ==
    /\ pc = "failed" /\ variant = "test" /\ conn = "closed"
    /\ Resolvable(gbook, GciColumn) /\ ~Resolvable(sbook, SaiColumn)
    /\ var2 # <<>> /\ ~Output

ReadingOver ==
    \/ pc \in {"gci", "sai", "diff", "print", "save", "combine", "done", "failed"}
    \/ variant = "test" /\ pc = "build"

\* C8: in every variant a connection that was opened is closed on every exit
\* path of the reading operation; no run ends with it open.
C8_ConnectionReleased == ReadingOver => conn # "open"

RowId(i) ==
    LET r == table[i] IN
    IF variant = "test"
    THEN build_id(r.mcc, r.mnc, r.lac, r.ci, MccWidth, RunMode, LacHexWidth, CiHexWidth).id
    ELSE build_id2(r.mcc, r.mnc, r.lac, r.ci, RunMode, LacHexWidth, CiHexWidth).id
Counted == printed # <<>> /\ variant \in {"test", "test2"}

\* C9 as claimed: the first count is the size of the canonical set (unique
\* non-empty identifiers), the others the lengths of the candidate lists and
\* of the unmatched results.
C9_CountsUniqueIdentifiers ==
    Counted =>
        /\ printed[1] = Cardinality({RowId(i) : i \in 1..Len(table)} \ {<<>>})
        /\ printed[2] = Len(var2) /\ printed[3] = Len(var3)
        /\ printed[4] = Cardinality(Kept(var2, Range(var1)))
        /\ printed[5] = Cardinality(Kept(var3, Range(var1)))

\* C9 as amended: the first count is the number of table rows whose
\* identifier is non-empty, repeated rows counted each time.
C9_CountsRows ==
    Counted =>
        /\ printed[1] = Cardinality({i \in 1..Len(table) : RowId(i) # <<>>})
        /\ printed[2] = Len(var2) /\ printed[3] = Len(var3)
        /\ printed[4] = Cardinality(Kept(var2, Range(var1)))
        /\ printed[5] = Cardinality(Kept(var3, Range(var1)))
C9_Witness ==
    /\ Counted /\ Len(table) = 2 /\ table[1] = table[2]
    /\ printed[1] = 2 /\ Cardinality(Range(var1)) = 1
    /\ printed[4] > 0

====
